---- MODULE Spec2Model ----
(***************************************************************************)
(* The mushroom classifier form (src/src/App.tsx): the React component     *)
(* state, its three handlers, and the two requests they await.             *)
(*                                                                         *)
(* A handler is a closure over the state of the render it was created in:  *)
(* the part of a handler that runs after an await still reads the          *)
(* `features` of the render in which the handler was invoked.  A request   *)
(* in flight therefore carries that captured mapping with it.              *)
(*                                                                         *)
(* Strings that the code only stores and compares are TLA+ strings.        *)
(* Strings that the code takes apart or builds (feature names turned into  *)
(* labels, the error messages) are sequences of one-character strings.     *)
(***************************************************************************)
EXTENDS Integers, Sequences, FiniteSets, TLC

\* ------------------------------------------------------------------ bounds

\* The number of user events (selections, uploads, submissions) in a run.
MaxEvents == 4

\* ------------------------------------------------------- character strings

\* The characters of the names in REQUIRED_FEATURES.
RequiredChars ==
      "odor" :> <<"o","d","o","r">> @@
      "spore-print-color" :> <<"s","p","o","r","e","-","p","r","i","n","t","-","c","o","l","o","r">> @@
      "gill-color" :> <<"g","i","l","l","-","c","o","l","o","r">> @@
      "cap-color" :> <<"c","a","p","-","c","o","l","o","r">> @@
      "bruises" :> <<"b","r","u","i","s","e","s">> @@
      "ring-type" :> <<"r","i","n","g","-","t","y","p","e">> @@
      "gill-spacing" :> <<"g","i","l","l","-","s","p","a","c","i","n","g">> @@
      "cap-shape" :> <<"c","a","p","-","s","h","a","p","e">> @@
      "population" :> <<"p","o","p","u","l","a","t","i","o","n">> @@
      "habitat" :> <<"h","a","b","i","t","a","t">> @@
      "stalk-surface-above-ring" :> <<"s","t","a","l","k","-","s","u","r","f","a","c","e","-","a","b","o","v","e","-","r","i","n","g">> @@
      "cap-surface" :> <<"c","a","p","-","s","u","r","f","a","c","e">>

\* The characters of the names of the optional features.
OptionalChars ==
      "gill-size" :> <<"g","i","l","l","-","s","i","z","e">> @@
      "veil-color" :> <<"v","e","i","l","-","c","o","l","o","r">>

\* The characters of each feature name of the schema.
Chars == RequiredChars @@ OptionalChars

\* String.prototype.toUpperCase on one character.
ToUpperCase(c) ==
    LET up == "a" :> "A" @@ "b" :> "B" @@ "c" :> "C" @@ "d" :> "D" @@ "e" :> "E" @@
              "f" :> "F" @@ "g" :> "G" @@ "h" :> "H" @@ "i" :> "I" @@ "j" :> "J" @@
              "k" :> "K" @@ "l" :> "L" @@ "m" :> "M" @@ "n" :> "N" @@ "o" :> "O" @@
              "p" :> "P" @@ "q" :> "Q" @@ "r" :> "R" @@ "s" :> "S" @@ "t" :> "T" @@
              "u" :> "U" @@ "v" :> "V" @@ "w" :> "W" @@ "x" :> "X" @@ "y" :> "Y" @@
              "z" :> "Z"
    IN  IF c \in DOMAIN up THEN up[c] ELSE c

\* s.split(sep) for a one-character separator: the pieces between separators.
RECURSIVE SplitChar(_, _)
SplitChar(s, sep) ==
    IF s = <<>> THEN << <<>> >>
    ELSE LET rest == SplitChar(Tail(s), sep)
         IN  IF Head(s) = sep
             THEN << <<>> >> \o rest
             ELSE << <<Head(s)>> \o Head(rest) >> \o Tail(rest)

\* parts.join(sep) for a separator string.
RECURSIVE Join(_, _)
Join(parts, sep) ==
    IF parts = <<>> THEN <<>>
    ELSE IF Len(parts) = 1 THEN Head(parts)
    ELSE Head(parts) \o sep \o Join(Tail(parts), sep)

\* word.charAt(0).toUpperCase() + word.slice(1)
Capitalize(word) ==
    IF word = <<>> THEN <<>> ELSE <<ToUpperCase(Head(word))>> \o Tail(word)

\* key.split('-').map(capitalize).join(' ')
Label(key) ==
    LET words == SplitChar(Chars[key], "-")
    IN  Join([i \in 1..Len(words) |-> Capitalize(words[i])], <<" ">>)

\* ------------------------------------------------------------------ schema

\* REQUIRED_FEATURES, in source order.
REQUIRED_FEATURES ==
    << "odor", "spore-print-color", "gill-color", "cap-color", "bruises",
       "ring-type", "gill-spacing", "cap-shape", "population", "habitat",
       "stalk-surface-above-ring", "cap-surface" >>

\* REQUIRED_FEATURES.includes(key)
IsRequired(key) == \E i \in 1..Len(REQUIRED_FEATURES) : REQUIRED_FEATURES[i] = key

\* Object.keys(featureDescriptions): the feature names of the schema, in
\* the order of the table.  The table itself (./featureDescriptions) holds
\* the twelve required features and the optional remainder; two optional
\* features stand for the remainder.
SchemaOrder == REQUIRED_FEATURES \o << "gill-size", "veil-color" >>

Schema == { SchemaOrder[i] : i \in 1..Len(SchemaOrder) }

\* featureDescriptions[feature]: the option values of each feature.
Options ==
    [ k \in Schema |->
        CASE k = "odor"      -> {"foul", "none"}
          [] k = "habitat"   -> {"woods", "grasses"}
          [] k = "gill-size" -> {"broad", "narrow"}
          [] k = "bruises"   -> {"yes", "no"}
          [] OTHER           -> {"brown", "white"} ]

\* The properties every object literal inherits from Object.prototype
\* (the `in` operator sees them); two of them stand for all.
ObjectPrototypeKeys == {"constructor", "toString"}

\* key in obj
In(key, obj) == key \in DOMAIN obj \/ key \in ObjectPrototypeKeys

\* obj[key] = value on a copy: sets or adds the own property.
SetKey(obj, key, value) == (key :> value) @@ obj

\* Object.keys(obj) for a feature mapping: the schema's keys in insertion
\* order, then the keys added later (the runs here add at most one).
KeyOrder(obj) ==
    LET later == DOMAIN obj \ Schema
        RECURSIVE Enum(_)
        Enum(S) == IF S = {} THEN <<>>
                   ELSE LET x == CHOOSE y \in S : TRUE IN <<x>> \o Enum(S \ {x})
    IN  SelectSeq(SchemaOrder, LAMBDA k : k \in DOMAIN obj) \o Enum(later)

\* ------------------------------------------------------------------- state

VARIABLES
    features,      \* useState<MushroomFeatures>
    loading,       \* useState(false)
    error,         \* useState<string | null>: NoError, or the message
    result,        \* useState<PredictionResult | null>
    imagePreview,  \* useState<string | null>
    inflight,      \* the requests awaiting their response
    events,        \* how many user events the component has handled
    predictCalls,  \* how many times axios.post(.../predict) was called
    last           \* the handler step taken last, and the response it read

vars == << features, loading, error, result, imagePreview, inflight, events,
           predictCalls, last >>

\* error === null
NoError == <<>>

\* result === null
NoResult == [prediction |-> "null", confidence |-> 0]

\* imagePreview === null
NoPreview == "null"

\* The initial features: every schema key, each with the empty string.
InitialFeatures == [ k \in Schema |-> "" ]

\* ------------------------------------------------------------------ inputs

\* What the user can do to the selects: the features touched in a run, each
\* with its options and the "Select..." entry (the empty string).
ChangedFeatures == {"odor", "gill-size"}

Selections == { <<k, v>> \in ChangedFeatures \X {"", "foul", "none", "broad"} :
                  v = "" \/ v \in Options[k] }

\* The files the user picks.
Files == {"blob:photo"}

\* A form the user has filled in completely: every required feature set,
\* the optional ones left empty.
FilledFeatures ==
    [ k \in Schema |->
        CASE ~IsRequired(k) -> ""
          [] k = "odor"     -> "none"
          [] k = "habitat"  -> "grasses"
          [] k = "bruises"  -> "no"
          [] OTHER          -> "brown" ]

\* No `features` field in the analysis response.
NoDetected == [ k \in {} |-> "" ]

\* The `features` mappings an image analysis returns: a schema feature with
\* one of its options next to a key the schema does not know; a schema
\* feature next to a key that only Object.prototype knows; a schema feature
\* with a value that is none of its options.
DetectedMappings ==
    { ("odor" :> "foul") @@ ("spore-size" :> "large"),
      ("habitat" :> "woods") @@ ("constructor" :> "x"),
      ("odor" :> "purple") }

\* A server error message.
ServerMessage == <<"b","a","d"," ","i","n","p","u","t">>

\* What comes back for a request.  kind: "ok" (2xx), "http" (a non-2xx
\* response), "network" (no response).  detected: data.features of an
\* analysis; data: the body of a prediction; error: the error field of an
\* error body (the empty sequence: no such field, or an empty one).
Response(kind, hasFeatures, detected, data, errorField) ==
    [ kind |-> kind, hasFeatures |-> hasFeatures, detected |-> detected,
      data |-> data, error |-> errorField ]

NoResponse == Response("none", FALSE, NoDetected, NoResult, <<>>)

AnalyzeResponses ==
    { Response("ok", TRUE, d, NoResult, <<>>) : d \in DetectedMappings }
    \cup { Response("ok", FALSE, NoDetected, NoResult, <<>>),
           Response("http", FALSE, NoDetected, NoResult, ServerMessage),
           Response("network", FALSE, NoDetected, NoResult, <<>>) }

\* The confidence is carried in hundredths; 120 is a value outside [0,1].
PredictionResults ==
    { [prediction |-> "poisonous", confidence |-> 87],
      [prediction |-> "edible", confidence |-> 120] }

PredictResponses ==
    { Response("ok", FALSE, NoDetected, d, <<>>) : d \in PredictionResults }
    \cup { Response("http", FALSE, NoDetected, NoResult, ServerMessage),
           Response("http", FALSE, NoDetected, NoResult, <<>>),
           Response("network", FALSE, NoDetected, NoResult, <<>>) }

\* ---------------------------------------------------------------- handlers

\* The record of the step taken last.
Step(op, resp) == [ op |-> op, response |-> resp ]

\* A request in flight: the handler suspended at its await, with the
\* `features` its closure holds, and the body it sent.
Request(kind, feats, body) ==
    [ id |-> events + 1, kind |-> kind, features |-> feats, body |-> body ]

\* handleFeatureChange: setFeatures(prev => ({...prev, [feature]: value}))
HandleFeatureChange(feature, value) ==
    /\ events < MaxEvents
    /\ features' = SetKey(features, feature, value)
    /\ events' = events + 1
    /\ last' = Step("change", NoResponse)
    /\ UNCHANGED << loading, error, result, imagePreview, inflight, predictCalls >>

\* handleImageUpload with no file chosen: the early return.
HandleImageUploadNoFile ==
    /\ events < MaxEvents
    /\ events' = events + 1
    /\ last' = Step("uploadNone", NoResponse)
    /\ UNCHANGED << features, loading, error, result, imagePreview, inflight,
                    predictCalls >>

\* handleImageUpload up to its await: the preview, setLoading(true), fetch.
HandleImageUpload(file) ==
    /\ events < MaxEvents
    /\ imagePreview' = file
    /\ loading' = TRUE
    /\ inflight' = inflight \cup { Request("analyze", features, NoDetected) }
    /\ events' = events + 1
    /\ last' = Step("upload", NoResponse)
    /\ UNCHANGED << features, error, result, predictCalls >>

\* The forEach of handleImageUpload: newFeatures = {...features}, then
\* every detected key that is `in` newFeatures is assigned.
ApplyDetected(feats, detected) ==
    LET keys == { k \in DOMAIN detected : In(k, feats) }
    IN  [ k \in DOMAIN feats \cup keys |->
            IF k \in keys THEN detected[k] ELSE feats[k] ]

\* 'Failed to analyze image. Please try again.'
AnalyzeFallbackMessage ==
    <<"F","a","i","l","e","d"," ","t","o"," ","a","n","a","l","y","z","e"," ",
      "i","m","a","g","e","."," ","P","l","e","a","s","e"," ","t","r","y"," ",
      "a","g","a","i","n",".">>

\* The catch of handleImageUpload: whatever was thrown, the fallback.
AnalyzeErrorMessage(resp) == AnalyzeFallbackMessage

\* handleImageUpload without its finally: loading is left as it was.
AnalyzeFinallyMissing(wasLoading) == wasLoading

\* The finally of handleImageUpload: setLoading(false).
AnalyzeFinally(wasLoading) == FALSE

\* handleImageUpload from its await on: the response, or the failure.
AnalyzeResponse(r, resp) ==
    /\ r \in inflight
    /\ r.kind = "analyze"
    /\ inflight' = inflight \ {r}
    /\ IF resp.kind = "ok"
       THEN /\ features' = IF resp.hasFeatures
                           THEN ApplyDetected(r.features, resp.detected)
                           ELSE features
            /\ error' = error
       ELSE /\ features' = features
            /\ error' = AnalyzeErrorMessage(resp)
    /\ loading' = AnalyzeFinally(loading)
    /\ last' = Step("analyzeResponse", resp)
    /\ UNCHANGED << result, imagePreview, events, predictCalls >>

\* The filter of handleSubmit without its REQUIRED_FEATURES.includes(key).
EmptyKeysOfAnyFeature(feats) ==
    SelectSeq(KeyOrder(feats), LAMBDA k : feats[k] = "")

\* The keys of the required features whose value is empty, in the order of
\* Object.entries(features).
EmptyRequiredKeys(feats) ==
    SelectSeq(KeyOrder(feats), LAMBDA k : IsRequired(k) /\ feats[k] = "")

\* emptyRequiredFields: those keys as labels.
EmptyRequiredFields(feats) ==
    LET keys == EmptyRequiredKeys(feats)
    IN  [ i \in 1..Len(keys) |-> Label(keys[i]) ]

\* 'Please fill in all required fields: '
ValidationPrefix ==
    <<"P","l","e","a","s","e"," ","f","i","l","l"," ","i","n"," ","a","l","l"," ",
      "r","e","q","u","i","r","e","d"," ","f","i","e","l","d","s",":"," ">>

\* `Please fill in all required fields: ${emptyRequiredFields.join(', ')}`
ValidationMessage(fields) == ValidationPrefix \o Join(fields, <<",", " ">>)

\* A request body that leaves out the features without a value.
RequestBodyWithoutEmpty(feats) ==
    [ k \in { j \in DOMAIN feats : feats[j] # "" } |-> feats[k] ]

\* The body of axios.post(`${API_URL}/predict`, features).
RequestBody(feats) == feats

\* handleSubmit up to its return or its await.  The submit button is
\* disabled while loading.
HandleSubmit ==
    /\ events < MaxEvents
    /\ ~loading
    /\ LET fields == EmptyRequiredFields(features)
       IN  IF Len(fields) > 0
           THEN /\ error' = ValidationMessage(fields)
                /\ loading' = FALSE
                /\ UNCHANGED << inflight, predictCalls >>
           ELSE /\ error' = NoError
                /\ loading' = TRUE
                /\ inflight' = inflight \cup
                       { Request("predict", features, RequestBody(features)) }
                /\ predictCalls' = predictCalls + 1
    /\ events' = events + 1
    /\ last' = Step("submit", NoResponse)
    /\ UNCHANGED << features, result, imagePreview >>

\* 'Failed to get prediction. Please try again.'
PredictFallbackMessage ==
    <<"F","a","i","l","e","d"," ","t","o"," ","g","e","t"," ","p","r","e","d",
      "i","c","t","i","o","n","."," ","P","l","e","a","s","e"," ","t","r","y",
      " ","a","g","a","i","n",".">>

\* The catch of handleSubmit with the server's message replaced by the
\* fallback in every case.
PredictErrorMessageFallbackOnly(resp) == PredictFallbackMessage

\* The catch of handleSubmit: err.response?.data?.error, or the fallback.
PredictErrorMessage(resp) ==
    IF resp.kind = "http" /\ resp.error # <<>>
    THEN resp.error
    ELSE PredictFallbackMessage

\* The finally of handleSubmit: setLoading(false).
SubmitFinally(wasLoading) == FALSE

\* handleSubmit from its await on: the response, or the failure.
PredictResponse(r, resp) ==
    /\ r \in inflight
    /\ r.kind = "predict"
    /\ inflight' = inflight \ {r}
    /\ IF resp.kind = "ok"
       THEN /\ result' = resp.data
            /\ error' = error
       ELSE /\ result' = result
            /\ error' = PredictErrorMessage(resp)
    /\ loading' = SubmitFinally(loading)
    /\ last' = Step("predictResponse", resp)
    /\ UNCHANGED << features, imagePreview, events, predictCalls >>

\* ----------------------------------------------------------- specification

\* The component as mounted, with the form as the user may have left it
\* before the run observed here: untouched, or filled in.
Init ==
    /\ features \in {InitialFeatures, FilledFeatures}
    /\ loading = FALSE
    /\ error = NoError
    /\ result = NoResult
    /\ imagePreview = NoPreview
    /\ inflight = {}
    /\ events = 0
    /\ predictCalls = 0
    /\ last = Step("mount", NoResponse)

FeatureChange == \E s \in Selections : HandleFeatureChange(s[1], s[2])

ImageUpload == \E f \in Files : HandleImageUpload(f)

AnalyzeDone == \E r \in inflight : \E resp \in AnalyzeResponses : AnalyzeResponse(r, resp)

PredictDone == \E r \in inflight : \E resp \in PredictResponses : PredictResponse(r, resp)

Next ==
    \/ FeatureChange
    \/ HandleImageUploadNoFile
    \/ ImageUpload
    \/ AnalyzeDone
    \/ HandleSubmit
    \/ PredictDone

Spec == Init /\ [][Next]_vars

\* Every request gets its response or its failure.
FairSpec == Spec /\ WF_vars(AnalyzeDone) /\ WF_vars(PredictDone)

\* ------------------------------------------------------------- properties

RequiredSet == { REQUIRED_FEATURES[i] : i \in 1..Len(REQUIRED_FEATURES) }

\* The required features without a value in a feature mapping.
MissingRequired(feats) == { k \in RequiredSet : feats[k] = "" }

\* A step that is one invocation of handleSubmit.
SubmitStep == events' = events + 1 /\ last'.op = "submit"

\* A step in which a suspended handler reads its response.
ResponseStep(op) == inflight' # inflight /\ last'.op = op

\* s.split(', '): the pieces of s between the occurrences of ", ".
SplitCommaSpace(s) ==
    LET at == { i \in 1..(Len(s) - 1) : s[i] = "," /\ s[i + 1] = " " }
        n == Cardinality(at)
        nth(j) == CHOOSE p \in at : Cardinality({ q \in at : q < p }) = j - 1
    IN  [ j \in 1..(n + 1) |->
            SubSeq(s, IF j = 1 THEN 1 ELSE nth(j - 1) + 2,
                      IF j = n + 1 THEN Len(s) ELSE nth(j) - 1) ]

\* The items a validation message lists after its prefix.
ListedItems(msg) ==
    SplitCommaSpace(SubSeq(msg, Len(ValidationPrefix) + 1, Len(msg)))

\* The predict requests among a set of requests.
PredictRequests(reqs) == { r \in reqs : r.kind = "predict" }

\* C1: a submission with an empty required feature sends no request and sets
\* an error message that lists exactly the empty required features: each of
\* them once, by its label, and no other feature of the schema.
C1_RejectedSubmitListsMissing ==
    [][ (SubmitStep /\ MissingRequired(features) # {}) =>
          /\ predictCalls' = predictCalls
          /\ inflight' = inflight
          /\ Len(error') > Len(ValidationPrefix)
          /\ SubSeq(error', 1, Len(ValidationPrefix)) = ValidationPrefix
          /\ LET items == ListedItems(error')
             IN  /\ Len(items) = Cardinality(MissingRequired(features))
                 /\ { k \in Schema : \E i \in 1..Len(items) : items[i] = Label(k) }
                      = MissingRequired(features)
                 /\ \A i \in 1..Len(items) : \E k \in Schema : items[i] = Label(k)
      ]_vars

\* C1 witness: a submission was rejected with eleven required features
\* missing and one filled.
C1_Witness ==
    /\ last.op = "submit"
    /\ Cardinality(MissingRequired(features)) = 11
    /\ features["odor"] = "foul"
    /\ Len(ListedItems(error)) = 11
    /\ predictCalls = 0
    /\ ~loading

\* C2: a submission with every required feature filled calls the prediction
\* endpoint once, with the feature mapping of that moment as the body (every
\* schema feature a key, the unset optional ones as empty strings), and no
\* other step calls the endpoint.
C2_ValidSubmitPostsOnce ==
    [][ /\ (SubmitStep /\ MissingRequired(features) = {}) =>
              /\ predictCalls' = predictCalls + 1
              /\ \E r \in inflight' \ inflight :
                    /\ inflight' = inflight \cup {r}
                    /\ r.kind = "predict"
                    /\ r.body = features
                    /\ Schema \subseteq DOMAIN r.body
                    /\ \A k \in Schema : features[k] = "" => r.body[k] = ""
        /\ ~SubmitStep =>
              /\ predictCalls' = predictCalls
              /\ PredictRequests(inflight') \subseteq PredictRequests(inflight)
      ]_vars

\* C2 witness: one submission went out, with an unset optional feature in
\* its body, and failed; the endpoint was called once.
C2_Witness ==
    /\ last.op = "predictResponse"
    /\ last.response.kind = "network"
    /\ predictCalls = 1
    /\ inflight = {}
    /\ features["gill-size"] = ""

\* C3: applying an image-analysis response leaves the key set of the feature
\* mapping as it was: a detected key outside the schema gets no entry.
C3_ResponseKeepsKeySet ==
    [][ ResponseStep("analyzeResponse") => DOMAIN features' = DOMAIN features ]_vars

\* C4: once handleSubmit starts again, an earlier prediction result is no
\* longer in the form state.
C4_SubmitDiscardsResult ==
    [][ SubmitStep => result' = NoResult ]_vars

\* C5: every feature's value is the empty string or one of the feature's
\* options.
C5_ValuesAreOptions ==
    \A k \in Schema : features[k] = "" \/ features[k] \in Options[k]

\* C6 as stated: a failure whose error body carries a server message shows
\* that message verbatim, for image analysis and prediction alike; a
\* transport failure shows the fallback message of its operation.
C6_ServerMessageVerbatim ==
    [][ \A op \in {"analyzeResponse", "predictResponse"} :
          (ResponseStep(op) /\ last'.response.kind # "ok") =>
             LET resp == last'.response
             IN  /\ (resp.kind = "http" /\ resp.error # <<>>) => error' = resp.error
                 /\ resp.kind = "network" =>
                       error' = IF op = "analyzeResponse"
                                THEN AnalyzeFallbackMessage
                                ELSE PredictFallbackMessage
      ]_vars

\* C6 amended: a failed prediction whose error body carries a non-empty
\* error field shows that field verbatim, and any other failed prediction
\* shows the prediction fallback; a failed image analysis shows the image
\* fallback whatever the response carried.
C6_PredictVerbatimAnalyzeFallback ==
    [][ /\ (ResponseStep("predictResponse") /\ last'.response.kind # "ok") =>
              LET resp == last'.response
              IN  error' = IF resp.kind = "http" /\ resp.error # <<>>
                           THEN resp.error
                           ELSE PredictFallbackMessage
        /\ (ResponseStep("analyzeResponse") /\ last'.response.kind # "ok") =>
              error' = AnalyzeFallbackMessage
      ]_vars

\* C6 witness: a prediction failed with a server message, which is the
\* error shown.
C6_Witness ==
    /\ last.op = "predictResponse"
    /\ last.response.kind = "http"
    /\ last.response.error = ServerMessage
    /\ error = ServerMessage

\* C7: while a request is in flight, loading is true.
C7_InflightImpliesLoading ==
    inflight # {} => loading

\* C8: with no request in flight loading is false, and loading, once true,
\* becomes false again.
C8_LoadingEnds ==
    /\ [](inflight = {} => ~loading)
    /\ (loading ~> ~loading)

\* C8 witness: an image analysis failed, nothing is in flight and the form
\* is idle with the error shown.
C8_Witness ==
    /\ last.op = "analyzeResponse"
    /\ last.response.kind = "network"
    /\ inflight = {}
    /\ ~loading
    /\ error = AnalyzeFallbackMessage

\* C9: when an image-analysis response is applied, each schema feature in
\* the response takes the detected value and each other feature keeps the
\* value it had just before.
C9_ResponseKeepsOtherFeatures ==
    [][ (ResponseStep("analyzeResponse") /\ last'.response.hasFeatures) =>
          LET detected == last'.response.detected
          IN  \A k \in Schema :
                 features'[k] = IF k \in DOMAIN detected THEN detected[k]
                                ELSE features[k]
      ]_vars

\* C10: at most one prediction request is in flight.
C10_OnePredictionInFlight ==
    Cardinality(PredictRequests(inflight)) <= 1

====
